---- MODULE Spec2Model ----
(***************************************************************************)
(* PQAEF: the bounded-concurrency request dispatchers                      *)
(* (utils/async_utils.py, utils/utils.py), the pipeline orchestrators      *)
(* (pipelines/synchronous_pipe.py, pipelines/asynchronous_pipe.py), the    *)
(* per-record parameter grouping of LocalModel (models/local_model.py) and *)
(* SingleChoiceTask (tasks/single_choice/single_choice_task.py).           *)
(*                                                                         *)
(* SpecDispatch runs one dispatch call (SpecDispatchFair: one that is not  *)
(* cancelled, on a fair event loop), SpecPipeline one pipeline run,        *)
(* SpecLocalModel one LocalModel.process call and SpecTask one             *)
(* SingleChoiceTask.process_batch call; SpecModelInit constructs the model *)
(* of one 'models' entry and SpecSlices runs one batch_size loop over a    *)
(* list.  Each specification keeps the other parts' variables at rest.     *)
(***************************************************************************)
EXTENDS Integers, Sequences, FiniteSets, TLC

\* ------------------------------------------------------------------ bounds
\* Longest payload list handed to one dispatch.
MaxPayloads == 2
\* Largest concurrency limit tried (limits are 1..MaxConcurrency).
MaxConcurrency == 2
\* Most stages in a job's 'tasks' list.
MaxStages == 2
\* Most '*_model_name' keys in one stage's config.
MaxRefs == 2
\* Most names in one stage's 'loader_names'.
MaxLoaders == 2
\* Longest list of records handed to one LocalModel.process call.
MaxRecords == 2
\* Longest batch handed to one SingleChoiceTask.process_batch call.
MaxBatch == 2
\* Longest list handed to one batch_size loop.
MaxPrompts == 3
\* Largest 'batch_size' tried (sizes are 1..MaxBatchSize).
MaxBatchSize == 2

VARIABLES
    \* ---- dispatcher ----
    dfn,          \* which dispatcher runs: "post", "openai", "utils", or "none"
    payloads,     \* the payload list (argument)
    concurrency,  \* the concurrency limit (argument)
    semaphore,    \* asyncio.Semaphore: number of free permits
    tstate,       \* per payload index: position of its coroutine / task
    tres,         \* per payload index: what its coroutine returned / raised
    sendCount,    \* per payload index: how many times the send was issued
    sendOutcome,  \* per payload index: what the send itself produced
    completed,    \* indices in the order their coroutines returned
    cbPending,    \* utils.py: done-callbacks scheduled and not yet run
    loopIdx,      \* utils.py: next payload of the submitting for-loop
    dpc,          \* position of the dispatch call itself
    results,      \* the list the dispatch returned (empty until it returns)
    \* ---- pipeline ----
    pipe,         \* "sync", "async", or "none"
    nStages,      \* len(self.task_configs)
    ppc,          \* position of run()
    cur,          \* index of the stage run() is at (1-based)
    conf,         \* task_conf of the current stage
    keyIdx,       \* position in model_dependency_keys
    live,         \* model handles instantiated and not released
    taskLive,     \* stages whose task object exists
    all_data,     \* run()'s local all_data
    hist,         \* per stage: what has happened to it so far
    errStage,     \* stage at which an exception was raised (0: none)
    reclaims,     \* how often the cache reclaim (empty_cache, gc.collect) ran
    retval,       \* what run() returned
    \* ---- LocalModel.process ----
    generation_kwargs,  \* self.config['generation_kwargs']
    inputs,             \* the argument of process
    lpc,                \* position of process
    grouped_prompts,    \* what _prepare_and_group_inputs returned
    groupIdx,           \* groups the for-loop of process has been through
    outputs,            \* process's local `results`
    invocations,        \* the _run_inference_batch calls made, in order
    lraised,            \* class of the exception that left process ("none")
    \* ---- SingleChoiceTask.process_batch ----
    batch,              \* the argument of process_batch
    tpc,                \* position of process_batch
    all_prompts,        \* the prompts built for the model
    responses,          \* what self.llm_model.process returned
    task_results,       \* what process_batch returned
    traised,            \* class of the exception that left it ("none")
    \* ---- _initialize_model: one entry of the job config's 'models' ----
    model_class,             \* the entry's 'class'
    model_config,            \* the entry's 'config' dict, as it is now
    loaded_config,           \* the entry's 'config' dict as the job file gave it
    torch_env,               \* what torch reports in this process
    constructions,           \* how often the class was asked for an instance
    from_pretrained_kwargs,  \* **model_kwargs of the last from_pretrained call
    mpc,                     \* "ready", or "raised" once a constructor raised
    \* ---- _run_inference_batch / ClassificationModel.process ----
    sclass,                  \* the class whose loop runs
    sprompts,                \* the list the loop goes through (prompts / inputs)
    batch_size,              \* self.batch_size
    loop_i,                  \* the loop variable i
    in_progress,             \* slices handed to the model and not yet answered
    slices_done,             \* the slices answered so far: [from, to)
    all_generated_texts,     \* the outputs collected so far
    spc                      \* position of the loop

dvars == <<dfn, payloads, concurrency, semaphore, tstate, tres, sendCount,
           sendOutcome, completed, cbPending, loopIdx, dpc, results>>
pvars == <<pipe, nStages, ppc, cur, conf, keyIdx, live, taskLive, all_data,
           hist, errStage, reclaims, retval>>
lvars == <<generation_kwargs, inputs, lpc, grouped_prompts, groupIdx, outputs,
           invocations, lraised>>
tvars == <<batch, tpc, all_prompts, responses, task_results, traised>>
mvars == <<model_class, model_config, loaded_config, torch_env, constructions,
           from_pretrained_kwargs, mpc>>
svars == <<sclass, sprompts, batch_size, loop_i, in_progress, slices_done,
           all_generated_texts, spc>>
vars == <<dvars, pvars, lvars, tvars, mvars, svars>>
\* What each part leaves alone.
restOfDispatch == <<pvars, lvars, tvars, mvars, svars>>
restOfPipeline == <<dvars, lvars, tvars, mvars, svars>>
restOfLocalModel == <<dvars, pvars, tvars, mvars, svars>>
restOfTask == <<dvars, pvars, lvars, mvars, svars>>
restOfModelInit == <<dvars, pvars, lvars, tvars, svars>>
restOfSlices == <<dvars, pvars, lvars, tvars, mvars>>

\* ------------------------------------------------------------- values
\* Python's None, as a result slot or a return value.
None == [kind |-> "None"]
\* A success payload: the response to the payload with this id.
Ok(id) == [kind |-> "ok", of |-> id]
\* {"error": str(e)}
ErrorValue(e) == [kind |-> "error", error |-> e]

\* What one send can end with: a response, or an exception of some class.
\* aiohttp.ClientError, asyncio.TimeoutError, any other Exception.
SendOutcomes == {"ok", "ClientError", "TimeoutError", "Exception"}

\* The shapes of payload['messages']: key absent, empty list, one message
\* with content, one message without content.
MessageShapes ==
    { [hasMessages |-> FALSE, messages |-> <<>>],
      [hasMessages |-> TRUE,  messages |-> <<>>],
      [hasMessages |-> TRUE,  messages |-> <<[hasContent |-> TRUE]>>] }

\* payload i carries its own position as id, so that a response can be told
\* from the response to any other payload.
PayloadLists(n) ==
    { [i \in 1..n |-> [id |-> i, hasMessages |-> s[i].hasMessages,
                       messages |-> s[i].messages]] :
      s \in [1..n -> MessageShapes] }

Indices == 1..Len(payloads)

\* ------------------------------------------------------- pure functions
\* payload.get('messages', [{}])[0].get('content', 'N/A')[:50]
\* raises IndexError on an empty 'messages' list.
error_context(p) ==
    LET msgs == IF p.hasMessages THEN p.messages ELSE <<[hasContent |-> FALSE]>>
    IN  IF Len(msgs) = 0
        THEN [raises |-> TRUE,  text |-> "IndexError"]
        ELSE [raises |-> FALSE,
              text |-> IF msgs[1].hasContent THEN "content" ELSE "N/A"]

\* A fetch that goes back to wait for a permit after a failed send.
fetch_retrying(p, index, o) ==
    IF o = "ok"
    THEN [st |-> "returned", index |-> index, data |-> Ok(p.id)]
    ELSE [st |-> "created", index |-> index, data |-> None]

\* fetch (async_utils.py) once its session.post ended with outcome o:
\* the (index, data) tuple it returns, or the exception that leaves it.
fetch(p, index, o) ==
    IF o = "ok"
    THEN [st |-> "returned", index |-> index, data |-> Ok(p.id)]
    ELSE IF o = "ClientError"
    THEN IF error_context(p).raises
         THEN [st |-> "raised", index |-> index, data |-> ErrorValue("IndexError")]
         ELSE [st |-> "returned", index |-> index, data |-> ErrorValue(o)]
    ELSE [st |-> "returned", index |-> index, data |-> ErrorValue(o)]

\* get_completion (async_utils.py) once completions.create ended with o.
get_completion(p, index, o) ==
    IF o = "ok"
    THEN [st |-> "returned", index |-> index, data |-> Ok(p.id)]
    ELSE IF error_context(p).raises
         THEN [st |-> "raised", index |-> index, data |-> ErrorValue("IndexError")]
         ELSE [st |-> "returned", index |-> index, data |-> ErrorValue(o)]

\* post_request_async (utils.py) as a task: the response, or the exception
\* kept in the task (data holds the exception's class).
post_request_async(p, index, o) ==
    IF o = "ok"
    THEN [st |-> "returned", index |-> index, data |-> Ok(p.id)]
    ELSE [st |-> "exception", index |-> index, data |-> ErrorValue(o)]

\* Insertion of x into an ascending sequence.
RECURSIVE InsertSorted(_, _)
InsertSorted(s, x) ==
    IF s = <<>> THEN <<x>>
    ELSE IF x <= Head(s) THEN <<x>> \o s
    ELSE <<Head(s)>> \o InsertSorted(Tail(s), x)

RECURSIVE SortAscending(_)
SortAscending(s) ==
    IF s = <<>> THEN <<>> ELSE InsertSorted(SortAscending(Tail(s)), Head(s))

\* A gather that hands the outcomes over in the order of arrival.
GatherAsCompleted(done) == done

\* tqdm.gather / asyncio.gather: the awaitables' outcomes in the order the
\* awaitables were passed, whatever the order they completed in.
GatherOrder(done) == SortAscending(done)

\* results[index] = result_data, skipping the error values.
RECURSIVE ScatterSkipErrors(_, _)
ScatterSkipErrors(pairs, res) ==
    IF pairs = <<>> THEN res
    ELSE ScatterSkipErrors(Tail(pairs),
            IF Head(pairs).data.kind = "error" THEN res
            ELSE [res EXCEPT ![Head(pairs).index] = Head(pairs).data])

\* for index, result_data in results_in_completion_order:
\*     results[index] = result_data
RECURSIVE Scatter(_, _)
Scatter(pairs, res) ==
    IF pairs = <<>> THEN res
    ELSE Scatter(Tail(pairs), [res EXCEPT ![Head(pairs).index] = Head(pairs).data])

\* The sorting back with error values left out of the table.
SortedBackSkipErrors(pairs, n) == ScatterSkipErrors(pairs, [i \in 1..n |-> None])

\* results = [None] * len(payloads), then the scatter loop.
SortedBack(pairs, n) == Scatter(pairs, [i \in 1..n |-> None])

\* utils.py: the loop over gather's results; an exception becomes
\* {"error": str(res)}, anything else is appended as it is.
final_results(rs) ==
    [k \in 1..Len(rs) |->
        IF rs[k].st = "exception" THEN ErrorValue(rs[k].data.error) ELSE rs[k].data]

\* A semaphore that never blocks.
NoLimit(s) == TRUE

\* asyncio.Semaphore: acquire proceeds only while a permit is free.
CanAcquire(s) == s > 0

InFlight == {i \in Indices : tstate[i] = "sending"}

\* `async with aiohttp.ClientSession() as session:` has been left (by the
\* return, by an exception or by the cancellation): the session is closed.
\* dispatch_openai_requests has no session of its own; its client stays open.
SessionClosed ==
    /\ dfn \in {"post", "utils"}
    /\ dpc \in {"returned", "raised", "cancelled"}

\* What gather hands back: the coroutines' outcomes, one per awaitable.
Gathered == [k \in 1..Len(completed) |-> tres[GatherOrder(completed)[k]]]

\* ------------------------------------------------------ dispatcher: Init
NoResult == [st |-> "none", index |-> 0, data |-> None]

DInit ==
    /\ dfn \in {"post", "openai", "utils"}
    /\ \E n \in 0..MaxPayloads : payloads \in PayloadLists(n)
    /\ concurrency \in 1..MaxConcurrency
    /\ semaphore = concurrency
    /\ tstate = [i \in Indices |-> IF dfn = "utils" THEN "notcreated" ELSE "created"]
    /\ tres = [i \in Indices |-> NoResult]
    /\ sendCount = [i \in Indices |-> 0]
    /\ sendOutcome = [i \in Indices |-> "none"]
    /\ completed = <<>>
    /\ cbPending = {}
    /\ loopIdx = 1
    /\ dpc = IF dfn = "utils" THEN "loop" ELSE "gather"
    /\ results = <<>>

\* No dispatch is running.
DIdle ==
    /\ dfn = "none"
    /\ payloads = <<>>
    /\ concurrency = 1
    /\ semaphore = 1
    /\ tstate = <<>>
    /\ tres = <<>>
    /\ sendCount = <<>>
    /\ sendOutcome = <<>>
    /\ completed = <<>>
    /\ cbPending = {}
    /\ loopIdx = 1
    /\ dpc = "none"
    /\ results = <<>>

\* ---------------------------------- async_utils.py: fetch / get_completion
\* `async with semaphore:` entered; the send (session.post, completions.create)
\* is issued.  Coroutines reach the semaphore in no fixed order.
Acquire(i) ==
    /\ dfn \in {"post", "openai"}
    /\ ~SessionClosed
    /\ tstate[i] = "created"
    /\ CanAcquire(semaphore)
    /\ semaphore' = semaphore - 1
    /\ tstate' = [tstate EXCEPT ![i] = "sending"]
    /\ sendCount' = [sendCount EXCEPT ![i] = @ + 1]
    /\ UNCHANGED <<dfn, payloads, concurrency, tres, sendOutcome, completed,
                   cbPending, loopIdx, dpc, results>>
    /\ UNCHANGED restOfDispatch

\* fetch gets its permit after the session was closed: session.post raises
\* RuntimeError (session is closed) before anything is sent, `except
\* Exception` turns it into an error value, and the permit is given back,
\* all without a suspension in between.
AcquireClosed(i) ==
    /\ dfn = "post"
    /\ SessionClosed
    /\ tstate[i] = "created"
    /\ CanAcquire(semaphore)
    /\ sendCount' = [sendCount EXCEPT ![i] = @ + 1]
    /\ sendOutcome' = [sendOutcome EXCEPT ![i] = "Exception"]
    /\ tres' = [tres EXCEPT ![i] = fetch(payloads[i], i, "Exception")]
    /\ tstate' = [tstate EXCEPT ![i] = fetch(payloads[i], i, "Exception").st]
    /\ completed' = Append(completed, i)
    /\ UNCHANGED <<dfn, payloads, concurrency, semaphore, cbPending, loopIdx,
                   dpc, results>>
    /\ UNCHANGED restOfDispatch

\* The send ended with outcome o; the try/except decides what the coroutine
\* returns; leaving `async with semaphore` frees the permit either way.
Finish(i, o) ==
    /\ dfn \in {"post", "openai"}
    /\ tstate[i] = "sending"
    /\ LET r == IF dfn = "post" THEN fetch(payloads[i], i, o)
                ELSE get_completion(payloads[i], i, o)
       IN  /\ tres' = [tres EXCEPT ![i] = r]
           /\ tstate' = [tstate EXCEPT ![i] = r.st]
           /\ completed' = IF r.st = "returned" THEN Append(completed, i) ELSE completed
    /\ sendOutcome' = [sendOutcome EXCEPT ![i] = o]
    /\ semaphore' = semaphore + 1
    /\ UNCHANGED <<dfn, payloads, concurrency, sendCount, cbPending, loopIdx,
                   dpc, results>>
    /\ UNCHANGED restOfDispatch

\* tqdm.gather returned: every coroutine returned its tuple; the results are
\* sorted back by index and returned.
GatherReturn ==
    /\ dfn \in {"post", "openai"}
    /\ dpc = "gather"
    /\ \A i \in Indices : tstate[i] = "returned"
    /\ results' = SortedBack(Gathered, Len(payloads))
    /\ dpc' = "returned"
    /\ UNCHANGED <<dfn, payloads, concurrency, semaphore, tstate, tres, sendCount,
                   sendOutcome, completed, cbPending, loopIdx>>
    /\ UNCHANGED restOfDispatch

\* tqdm.gather awaits a coroutine that raised: the exception leaves the
\* dispatch (nothing around the gather catches it).
GatherRaise ==
    /\ dfn \in {"post", "openai"}
    /\ dpc = "gather"
    /\ \E i \in Indices : tstate[i] = "raised"
    /\ dpc' = "raised"
    /\ UNCHANGED <<dfn, payloads, concurrency, semaphore, tstate, tres, sendCount,
                   sendOutcome, completed, cbPending, loopIdx, results>>
    /\ UNCHANGED restOfDispatch

\* The caller cancels the dispatch while it is suspended in tqdm.gather:
\* CancelledError leaves the dispatch.  tqdm.gather awaits the coroutines
\* through asyncio.as_completed, which does not cancel the tasks it made:
\* the coroutines stay scheduled on the loop.
Cancel ==
    /\ dfn \in {"post", "openai"}
    /\ dpc = "gather"
    /\ dpc' = "cancelled"
    /\ UNCHANGED <<dfn, payloads, concurrency, semaphore, tstate, tres, sendCount,
                   sendOutcome, completed, cbPending, loopIdx, results>>
    /\ UNCHANGED restOfDispatch

\* The exception or the cancellation reaches asyncio.run (ApiModel.process),
\* which cancels every task still waiting or sending before it closes the
\* loop.
LoopShutdown ==
    /\ dfn \in {"post", "openai"}
    /\ dpc \in {"raised", "cancelled"}
    /\ \E i \in Indices : tstate[i] \in {"created", "sending"}
    /\ tstate' = [i \in Indices |->
                    IF tstate[i] \in {"created", "sending"} THEN "cancelled" ELSE tstate[i]]
    /\ semaphore' = semaphore + Cardinality(InFlight)
    /\ UNCHANGED <<dfn, payloads, concurrency, tres, sendCount, sendOutcome,
                   completed, cbPending, loopIdx, dpc, results>>
    /\ UNCHANGED restOfDispatch

\* --------------------------------------- utils.py: batch_post_requests_async
\* One turn of `for payload in payloads`: await semaphore.acquire(), then
\* create_task(post_request_async(...)) with the releasing done-callback.
Submit ==
    /\ dfn = "utils"
    /\ dpc = "loop"
    /\ loopIdx <= Len(payloads)
    /\ CanAcquire(semaphore)
    /\ semaphore' = semaphore - 1
    /\ tstate' = [tstate EXCEPT ![loopIdx] = "sending"]
    /\ sendCount' = [sendCount EXCEPT ![loopIdx] = @ + 1]
    /\ loopIdx' = loopIdx + 1
    /\ UNCHANGED <<dfn, payloads, concurrency, tres, sendOutcome, completed,
                   cbPending, dpc, results>>
    /\ UNCHANGED restOfDispatch

\* The for-loop is exhausted; asyncio.gather(*tasks, return_exceptions=True).
LoopEnd ==
    /\ dfn = "utils"
    /\ dpc = "loop"
    /\ loopIdx > Len(payloads)
    /\ dpc' = "gather"
    /\ UNCHANGED <<dfn, payloads, concurrency, semaphore, tstate, tres, sendCount,
                   sendOutcome, completed, cbPending, loopIdx, results>>
    /\ UNCHANGED restOfDispatch

\* A task ends with outcome o; its done-callback is scheduled.
TaskDone(i, o) ==
    /\ dfn = "utils"
    /\ tstate[i] = "sending"
    /\ LET r == post_request_async(payloads[i], i, o)
       IN  /\ tres' = [tres EXCEPT ![i] = r]
           /\ tstate' = [tstate EXCEPT ![i] = r.st]
    /\ completed' = Append(completed, i)
    /\ sendOutcome' = [sendOutcome EXCEPT ![i] = o]
    /\ cbPending' = cbPending \cup {i}
    /\ UNCHANGED <<dfn, payloads, concurrency, semaphore, sendCount, loopIdx,
                   dpc, results>>
    /\ UNCHANGED restOfDispatch

\* lambda t: semaphore.release()
DoneCallback(i) ==
    /\ i \in cbPending
    /\ cbPending' = cbPending \ {i}
    /\ semaphore' = semaphore + 1
    /\ UNCHANGED <<dfn, payloads, concurrency, tstate, tres, sendCount,
                   sendOutcome, completed, loopIdx, dpc, results>>
    /\ UNCHANGED restOfDispatch

\* utils.py, the caller cancels the dispatch.  In the for-loop it can be
\* suspended only in semaphore.acquire() with no permit free: CancelledError
\* leaves the loop and no further task is created.  In asyncio.gather the
\* cancellation is passed on to every task not done yet.
UtilsCancel ==
    /\ dfn = "utils"
    /\ \/ dpc = "loop" /\ loopIdx <= Len(payloads) /\ ~CanAcquire(semaphore)
       \/ dpc = "gather"
    /\ dpc' = "cancelled"
    /\ tstate' = [i \in Indices |->
                    IF dpc = "gather" /\ tstate[i] = "sending"
                    THEN "cancelled" ELSE tstate[i]]
    /\ cbPending' = IF dpc = "gather" THEN cbPending \cup InFlight ELSE cbPending
    /\ UNCHANGED <<dfn, payloads, concurrency, semaphore, tres, sendCount,
                   sendOutcome, completed, loopIdx, results>>
    /\ UNCHANGED restOfDispatch

\* gather returned; exceptions are turned into error placeholders.
UtilsGather ==
    /\ dfn = "utils"
    /\ dpc = "gather"
    /\ \A i \in Indices : tstate[i] \in {"returned", "exception"}
    /\ results' = final_results(Gathered)
    /\ dpc' = "returned"
    /\ UNCHANGED <<dfn, payloads, concurrency, semaphore, tstate, tres, sendCount,
                   sendOutcome, completed, cbPending, loopIdx>>
    /\ UNCHANGED restOfDispatch

DNext ==
    \/ \E i \in Indices : Acquire(i)
    \/ \E i \in Indices : AcquireClosed(i)
    \/ \E i \in Indices, o \in SendOutcomes : Finish(i, o)
    \/ GatherReturn
    \/ GatherRaise
    \/ Cancel
    \/ UtilsCancel
    \/ LoopShutdown
    \/ Submit
    \/ LoopEnd
    \/ \E i \in Indices, o \in SendOutcomes : TaskDone(i, o)
    \/ \E i \in Indices : DoneCallback(i)
    \/ UtilsGather

\* ===================================================== pipeline: values
\* A name not bound yet (run()'s all_data before the first assignment).
Unbound == [kind |-> "Unbound"]
\* A dataset: a Python list of records.
List(recs) == [kind |-> "list", recs |-> recs]

\* The job's data loaders and the records each yields; "X" names no loader.
\* A record remembers the loader it came from and the stages that processed it.
DataLoaders ==
    [A |-> <<[src |-> "a", by |-> <<>>]>>,
     B |-> <<[src |-> "b", by |-> <<>>]>>,
     E |-> <<>>]
LoaderNames == {"A", "B", "E", "X"}

\* The lists of loader names a stage's 'loader_names' can hold.
LoaderNameLists ==
    UNION {[1..n -> LoaderNames] : n \in 0..MaxLoaders}

\* The job's 'models' map: name -> class of the model; "missing" is in no map,
\* "bad" names a class that cannot be imported.
Models == [m1 |-> "LocalModel", bad |-> "NoSuchModel"]
ModelNames == {"m1", "bad", "missing"}
ImportableModelClasses == {"LocalModel"}

\* The values of a stage's '*_model_name' keys, in key order.
RefLists == UNION {[1..n -> ModelNames] : n \in 0..MaxRefs}

\* A lookup that falls back to the first configured model.
ModelConfigOrDefault(name) ==
    IF name \in DOMAIN Models THEN [found |-> TRUE, class |-> Models[name]]
    ELSE [found |-> TRUE, class |-> Models["m1"]]

\* self.config.get('models', {}).get(model_name): None when the name is absent.
ModelConfig(name) ==
    IF name \in DOMAIN Models THEN [found |-> TRUE, class |-> Models[name]]
    ELSE [found |-> FALSE, class |-> "None"]

\* An import of the task class that never fails.
ImportAnything(known) == TRUE

\* importlib.import_module(module_path); getattr(module, class_name)
ImportTaskClass(known) == known

\* A run that swallows a stage's exception and goes on with the clean-up.
OnExceptionContinue == "cleanup"

\* run() has no try/except/finally: an exception raised in a stage leaves
\* run() at once.
OnException == "raised"

\* task.process_batch / task.aprocess_batch: a new dataset, each record
\* marked as processed by stage n.
Process(n, data) ==
    List([k \in 1..Len(data.recs) |-> [data.recs[k] EXCEPT !.by = Append(@, n)]])

\* A clean-up that drops nothing.
KeepHandles(handles, n) == handles

\* del task; del model (each); del models_to_clean: the handles of stage n
\* lose their last reference.
DropHandles(handles, n) == {h \in handles : h.stage # n}

\* One model instance for every name, kept from its first use.
SharedInstance(stage, key, name) == [stage |-> 1, key |-> 1, name |-> name]

\* model = ModelClass(model_name=..., config=...): _initialize_model keeps no
\* table of instances, every call constructs one; the instance is known by
\* the stage and the '*_model_name' key it was made for.
NewInstance(stage, key, name) == [stage |-> stage, key |-> key, name |-> name]

\* A reclaim that is skipped.
SkipReclaim(count) == count

\* if torch.cuda.is_available(): torch.cuda.empty_cache(); gc.collect()
ReclaimCaches(count) == count + 1

\* _initialize_datas returns list(data_loader), the last loader of the loop
\* (acc, the concatenation built in all_data, is not what it returns).
InitializeDatasResult(acc, last) == List(DataLoaders[last])

\* What run() remembers of a stage: nothing of it happened yet.
FreshStage ==
    [started |-> FALSE, unknownKind |-> FALSE, missingRef |-> FALSE,
     hasFinalize |-> FALSE, inits |-> 0, releases |-> 0, taskBuilt |-> FALSE,
     proc |-> "none", procIn |-> None, procOut |-> None,
     finalizeCalls |-> 0, finalizeState |-> "none"]

\* The locals of the stage in progress.
NoConf == [loader_names |-> <<>>, acc |-> <<>>, data_loader |-> "none",
           refs |-> <<>>, task_init_kwargs |-> {}, hasFinalize |-> FALSE]

Stages == 1..nStages

\* ---------------------------------------------------------- pipeline: Init
PInit ==
    /\ pipe \in {"sync", "async"}
    /\ nStages \in 0..MaxStages
    /\ ppc = IF pipe = "sync" THEN "loop" ELSE "load"
    /\ cur = 0
    /\ conf = NoConf
    /\ keyIdx = 0
    /\ live = {}
    /\ taskLive = {}
    /\ all_data = Unbound
    /\ hist = [n \in Stages |-> FreshStage]
    /\ errStage = 0
    /\ reclaims = 0
    /\ retval = None

\* The values a stage's 'loader_names' can have: absent (None), one string,
\* a list of names, or a value that is neither.
LoaderNamesValues ==
    {[form |-> "None", names |-> <<>>], [form |-> "other", names |-> <<>>]}
    \cup {[form |-> "str", names |-> <<x>>] : x \in LoaderNames}
    \cup {[form |-> "list", names |-> l] : l \in LoaderNameLists}

\* An exception raised while stage `cur` is being resolved or run; h is what
\* is remembered of the stages at that moment.
Raise(h) ==
    /\ ppc' = OnException
    /\ errStage' = cur
    /\ hist' = h
    /\ UNCHANGED <<pipe, nStages, cur, conf, keyIdx, live, taskLive, all_data,
                   reclaims, retval>>

\* ------------------------------------------- AsynchronousPipeline.run: load
\* all_data = list(data_loader); an empty dataset returns [] at once.
AsyncLoad(loader) ==
    /\ pipe = "async"
    /\ ppc = "load"
    /\ all_data' = List(DataLoaders[loader])
    /\ IF DataLoaders[loader] = <<>>
       THEN ppc' = "returned" /\ retval' = List(<<>>)
       ELSE ppc' = "loop" /\ retval' = retval
    /\ UNCHANGED <<pipe, nStages, cur, conf, keyIdx, live, taskLive, hist,
                   errStage, reclaims>>
    /\ UNCHANGED restOfPipeline

\* ------------------------------------------------ run(): the loop over tasks
\* for i, task_conf in enumerate(self.task_configs): the next stage.
StageBegin ==
    /\ ppc = "loop"
    /\ cur < nStages
    /\ cur' = cur + 1
    /\ hist' = [hist EXCEPT ![cur + 1].started = TRUE]
    /\ ppc' = IF pipe = "sync" THEN "datas" ELSE "resolve"
    /\ conf' = NoConf
    /\ keyIdx' = 0
    /\ UNCHANGED <<pipe, nStages, live, taskLive, all_data, errStage, reclaims,
                   retval>>
    /\ UNCHANGED restOfPipeline

\* The loop is exhausted: return all_data (unbound in the synchronous run of
\* a job without tasks, which raises UnboundLocalError).
RunReturn ==
    /\ ppc = "loop"
    /\ cur = nStages
    /\ IF all_data = Unbound
       THEN ppc' = "raised" /\ retval' = retval
       ELSE ppc' = "returned" /\ retval' = all_data
    /\ UNCHANGED <<pipe, nStages, cur, conf, keyIdx, live, taskLive, all_data,
                   hist, errStage, reclaims>>
    /\ UNCHANGED restOfPipeline

\* ------------------------------------- SynchronousPipeline._initialize_datas
\* loader_names is read and normalised: None and non-lists raise ValueError,
\* a string becomes a one-element list.
InitDatasEnter(ln) ==
    /\ pipe = "sync"
    /\ ppc = "datas"
    /\ IF ln.form \in {"None", "other"}
       THEN Raise(hist)
       ELSE /\ conf' = [conf EXCEPT !.loader_names = ln.names]
            /\ ppc' = "datasloop"
            /\ keyIdx' = 0
            /\ UNCHANGED <<pipe, nStages, cur, live, taskLive, all_data, hist,
                           errStage, reclaims, retval>>
    /\ UNCHANGED restOfPipeline

\* One turn of `for name in loader_names`.
InitDatasIter ==
    /\ ppc = "datasloop"
    /\ keyIdx < Len(conf.loader_names)
    /\ LET name == conf.loader_names[keyIdx + 1]
       IN  IF name \notin DOMAIN DataLoaders
           THEN Raise(hist)
           ELSE /\ conf' = [conf EXCEPT !.acc = @ \o DataLoaders[name],
                                        !.data_loader = name]
                /\ keyIdx' = keyIdx + 1
                /\ UNCHANGED <<pipe, nStages, ppc, cur, live, taskLive, all_data,
                               hist, errStage, reclaims, retval>>
    /\ UNCHANGED restOfPipeline

\* return list(data_loader); after an empty loop data_loader is unbound.
\* The function's locals end with it.
InitDatasReturn ==
    /\ ppc = "datasloop"
    /\ keyIdx = Len(conf.loader_names)
    /\ IF conf.data_loader = "none"
       THEN Raise(hist)
       ELSE /\ all_data' = InitializeDatasResult(conf.acc, conf.data_loader)
            /\ ppc' = "resolve"
            /\ keyIdx' = 0
            /\ conf' = NoConf
            /\ UNCHANGED <<pipe, nStages, cur, live, taskLive, hist, errStage,
                           reclaims, retval>>
    /\ UNCHANGED restOfPipeline

\* ------------------------------------------------ _initialize_task_and_models
\* The task class is imported; then the '*_model_name' keys are collected.
\* known: whether module and class exist; refs: the stage's model references.
Resolve(known, refs) ==
    /\ ppc = "resolve"
    /\ LET h == [hist EXCEPT ![cur].unknownKind = ~known,
                             ![cur].missingRef =
                                 \E k \in 1..Len(refs) : refs[k] \notin DOMAIN Models]
       IN  IF ~ImportTaskClass(known)
           THEN Raise(h)
           ELSE /\ hist' = h
                /\ conf' = [conf EXCEPT !.refs = refs]
                /\ ppc' = "models"
                /\ keyIdx' = 0
                /\ UNCHANGED <<pipe, nStages, cur, live, taskLive, all_data,
                               errStage, reclaims, retval>>
    /\ UNCHANGED restOfPipeline

\* One turn of `for key in model_dependency_keys`: look the model up, raise
\* ValueError if it is not in 'models', else _initialize_model (ImportError
\* if its class cannot be imported).
InitModel ==
    /\ ppc = "models"
    /\ keyIdx < Len(conf.refs)
    /\ LET name == conf.refs[keyIdx + 1]
           cfg  == ModelConfig(name)
       IN  IF ~cfg.found \/ cfg.class \notin ImportableModelClasses
           THEN Raise(hist)
           ELSE /\ live' = live \cup {NewInstance(cur, keyIdx + 1, name)}
                /\ conf' = [conf EXCEPT !.task_init_kwargs =
                                @ \cup {NewInstance(cur, keyIdx + 1, name)}]
                /\ hist' = [hist EXCEPT ![cur].inits = @ + 1]
                /\ keyIdx' = keyIdx + 1
                /\ UNCHANGED <<pipe, nStages, ppc, cur, taskLive, all_data,
                               errStage, reclaims, retval>>
    /\ UNCHANGED restOfPipeline

\* task = TaskClass(task_config=..., **task_init_kwargs).  The constructor may
\* raise (SingleChoiceTask: FileNotFoundError); hasFin: the task has a
\* callable finalize.  _initialize_task_and_models returns and its locals end.
ConstructTask(ok, hasFin) ==
    /\ ppc = "models"
    /\ keyIdx = Len(conf.refs)
    /\ IF ~ok
       THEN Raise(hist)
       ELSE /\ taskLive' = taskLive \cup {cur}
            /\ hist' = [hist EXCEPT ![cur].taskBuilt = TRUE,
                                    ![cur].hasFinalize = hasFin]
            /\ conf' = [NoConf EXCEPT !.hasFinalize = hasFin]
            /\ ppc' = "process"
            /\ keyIdx' = 0
            /\ UNCHANGED <<pipe, nStages, cur, live, all_data, errStage, reclaims,
                           retval>>
    /\ UNCHANGED restOfPipeline

\* ------------------------------------------------------- run(): the stage
\* task.process_batch(all_data) / await task.aprocess_batch(all_data) begins.
ProcessCall ==
    /\ ppc = "process"
    /\ hist' = [hist EXCEPT ![cur].proc = "running", ![cur].procIn = all_data]
    /\ ppc' = "processing"
    /\ UNCHANGED <<pipe, nStages, cur, conf, keyIdx, live, taskLive, all_data,
                   errStage, reclaims, retval>>
    /\ UNCHANGED restOfPipeline

\* The process call returns the new dataset, or raises.
ProcessReturn(ok) ==
    /\ ppc = "processing"
    /\ IF ~ok
       THEN Raise([hist EXCEPT ![cur].proc = "raised"])
       ELSE /\ all_data' = Process(cur, all_data)
            /\ hist' = [hist EXCEPT ![cur].proc = "returned",
                                    ![cur].procOut = Process(cur, all_data)]
            /\ ppc' = IF pipe = "sync" THEN "finalize" ELSE "cleanup"
            /\ UNCHANGED <<pipe, nStages, cur, conf, keyIdx, live, taskLive,
                           errStage, reclaims, retval>>
    /\ UNCHANGED restOfPipeline

\* SynchronousPipeline only:
\* if hasattr(task, 'finalize') and callable(task.finalize): task.finalize()
Finalize(ok) ==
    /\ ppc = "finalize"
    /\ IF ~conf.hasFinalize
       THEN /\ ok
            /\ ppc' = "cleanup"
            /\ UNCHANGED <<pipe, nStages, cur, conf, keyIdx, live, taskLive,
                           all_data, hist, errStage, reclaims, retval>>
       ELSE IF ~ok
       THEN Raise([hist EXCEPT ![cur].finalizeCalls = @ + 1,
                               ![cur].finalizeState = "raised"])
       ELSE /\ hist' = [hist EXCEPT ![cur].finalizeCalls = @ + 1,
                                    ![cur].finalizeState = "returned"]
            /\ ppc' = "cleanup"
            /\ UNCHANGED <<pipe, nStages, cur, conf, keyIdx, live, taskLive,
                           all_data, errStage, reclaims, retval>>
    /\ UNCHANGED restOfPipeline

\* del task; del the models; torch.cuda.empty_cache(); gc.collect()
Cleanup ==
    /\ ppc = "cleanup"
    /\ taskLive' = taskLive \ {cur}
    /\ live' = DropHandles(live, cur)
    /\ hist' = [hist EXCEPT ![cur].releases =
                   @ + Cardinality(live) - Cardinality(DropHandles(live, cur))]
    /\ reclaims' = ReclaimCaches(reclaims)
    /\ conf' = NoConf
    /\ ppc' = "loop"
    /\ UNCHANGED <<pipe, nStages, cur, keyIdx, all_data, errStage, retval>>
    /\ UNCHANGED restOfPipeline

PNext ==
    \/ \E loader \in DOMAIN DataLoaders : AsyncLoad(loader)
    \/ StageBegin
    \/ RunReturn
    \/ \E ln \in LoaderNamesValues : InitDatasEnter(ln)
    \/ InitDatasIter
    \/ InitDatasReturn
    \/ \E known \in BOOLEAN, refs \in RefLists : Resolve(known, refs)
    \/ InitModel
    \/ \E ok \in BOOLEAN, hasFin \in BOOLEAN : ConstructTask(ok, hasFin)
    \/ ProcessCall
    \/ \E ok \in BOOLEAN : ProcessReturn(ok)
    \/ \E ok \in BOOLEAN : Finalize(ok)
    \/ Cleanup

\* ================================================= LocalModel: values
\* A Python dict of generation parameters: its items in insertion order,
\* no key twice.  Parameter values are JSON numbers: the int n, or the float
\* n.0 (Python renders the two differently).
ParamKeys == {"temperature", "top_p"}
IntValue(n) == [type |-> "int", n |-> n]
FloatValue(n) == [type |-> "float", n |-> n]
ParamValues == {IntValue(1), FloatValue(1)}
Item(k, v) == [k |-> k, v |-> v]

Dicts ==
    { d \in UNION {[1..n -> {Item(k, v) : k \in ParamKeys, v \in ParamValues}] :
                   n \in 0..Cardinality(ParamKeys)} :
        \A i, j \in DOMAIN d : d[i].k = d[j].k => i = j }

\* The keys of a dict, and its items as Python's == on dicts compares them
\* (the insertion order plays no part).
Keys(d) == {d[i].k : i \in DOMAIN d}
Items(d) == {d[i] : i \in DOMAIN d}

\* The prompt texts.
Prompts == {"p", "q"}

\* An element of a list input: a string, or a record dict with or without
\* the 'prompt' key, every other key of which is a generation parameter
\* (the parameters of a record without prompt are never read).
StrItem(p) == [type |-> "str", hasPrompt |-> TRUE, prompt |-> p, kwargs |-> <<>>]
DictItem(has, p, kw) == [type |-> "dict", hasPrompt |-> has, prompt |-> p, kwargs |-> kw]
ListItems ==
    {StrItem(p) : p \in Prompts}
    \cup {DictItem(TRUE, p, kw) : p \in Prompts, kw \in Dicts}
    \cup {DictItem(FALSE, "", <<>>)}

\* The arguments process is called with: one string, a list, one dict with
\* (or without) a 'prompts' list and shared parameters, or anything else.
InputValues ==
    {[form |-> "str", items |-> <<StrItem(p)>>, kwargs |-> <<>>] : p \in Prompts}
    \cup {[form |-> "list", items |-> l, kwargs |-> <<>>] :
            l \in UNION {[1..n -> ListItems] : n \in 0..MaxRecords}}
    \cup {[form |-> "dict", items |-> l, kwargs |-> kw] :
            l \in UNION {[1..n -> {StrItem(p) : p \in Prompts}] : n \in 0..MaxRecords},
            kw \in {<<>>, <<Item("top_p", FloatValue(1))>>}}
    \cup {[form |-> "dictNoPrompts", items |-> <<>>, kwargs |-> <<>>],
          [form |-> "other", items |-> <<>>, kwargs |-> <<>>]}

\* The model-level defaults a config can hold.
GenerationKwargsValues == {<<>>, <<Item("temperature", IntValue(1))>>}

\* ------------------------------------------- LocalModel: pure functions
\* d[k] = v: an existing key keeps its place, a new key goes to the end.
SetItem(d, k, v) ==
    IF k \in Keys(d)
    THEN [i \in DOMAIN d |-> IF d[i].k = k THEN Item(k, v) ELSE d[i]]
    ELSE Append(d, Item(k, v))

\* dict.update(other)
RECURSIVE update(_, _)
update(d, other) ==
    IF other = <<>> THEN d
    ELSE update(SetItem(d, Head(other).k, Head(other).v), Tail(other))

\* base_kwargs.copy(): a new dict with the same items.
copy(d) == d

\* A merge in which the model-level value wins on a key of both sides.
current_kwargs_base_wins(base_kwargs, override_kwargs) ==
    update(copy(override_kwargs), base_kwargs)

\* current_kwargs = base_kwargs.copy(); current_kwargs.update(override_kwargs)
current_kwargs(base_kwargs, override_kwargs) ==
    update(copy(base_kwargs), override_kwargs)

\* The order of Python's str comparison on the parameter keys.
KeyRank == [temperature |-> 1, top_p |-> 2]

\* sorted(d.items()) by key.
RECURSIVE InsertByKey(_, _)
InsertByKey(s, x) ==
    IF s = <<>> THEN <<x>>
    ELSE IF KeyRank[x.k] <= KeyRank[Head(s).k] THEN <<x>> \o s
    ELSE <<Head(s)>> \o InsertByKey(Tail(s), x)

RECURSIVE SortByKey(_)
SortByKey(d) ==
    IF d = <<>> THEN <<>> ELSE InsertByKey(SortByKey(Tail(d)), Head(d))

\* The JSON text of a number, as its characters: 1 is "1", 1.0 is "1.0".
Digit == <<"1", "2", "3">>
NumberText(v) ==
    IF v.type = "int" THEN <<Digit[v.n]>> ELSE <<Digit[v.n], ".", "0">>

\* The number a JSON text stands for.
ParseNumber(text) ==
    LET n == CHOOSE m \in DOMAIN Digit : Digit[m] = text[1]
    IN  IF Len(text) = 1 THEN IntValue(n) ELSE FloatValue(n)

\* A serialisation that keeps the insertion order of the keys.
json_dumps_unsorted(d) ==
    [i \in DOMAIN d |-> [k |-> d[i].k, text |-> NumberText(d[i].v)]]

\* json.dumps(current_kwargs, sort_keys=True): the members "key": text in
\* ascending key order.
json_dumps(d) ==
    [i \in DOMAIN d |-> [k |-> SortByKey(d)[i].k,
                         text |-> NumberText(SortByKey(d)[i].v)]]

\* json.loads(kwargs_key): the dict the text stands for, keys in text order.
json_loads(s) == [i \in DOMAIN s |-> Item(s[i].k, ParseNumber(s[i].text))]

\* A grouping in which a signature keeps only its latest sample.
GroupReplace(groups, key, entry) ==
    IF \E g \in DOMAIN groups : groups[g].key = key
    THEN [g \in DOMAIN groups |->
            IF groups[g].key = key
            THEN [groups[g] EXCEPT !.group = <<entry>>] ELSE groups[g]]
    ELSE Append(groups, [key |-> key, group |-> <<entry>>])

\* grouped_prompts[kwargs_key].append((original_index, sample['prompt'])) on
\* a defaultdict(list): a new signature opens a new group at the end.
GroupAppend(groups, key, entry) ==
    IF \E g \in DOMAIN groups : groups[g].key = key
    THEN [g \in DOMAIN groups |->
            IF groups[g].key = key
            THEN [groups[g] EXCEPT !.group = Append(@, entry)] ELSE groups[g]]
    ELSE Append(groups, [key |-> key, group |-> <<entry>>])

\* Step 3 of _prepare_and_group_inputs: the input is normalised to a list of
\* samples, or ValueError / TypeError is raised.
Normalize(in) ==
    IF in.form = "str"
    THEN [raises |-> "none", samples |-> in.items]
    ELSE IF in.form = "list" /\ \A i \in DOMAIN in.items : in.items[i].type = "str"
    THEN [raises |-> "none", samples |-> in.items]
    ELSE IF in.form = "list" /\ \A i \in DOMAIN in.items : in.items[i].type = "dict"
    THEN IF \E i \in DOMAIN in.items : ~in.items[i].hasPrompt
         THEN [raises |-> "ValueError", samples |-> <<>>]
         ELSE [raises |-> "none", samples |-> in.items]
    ELSE IF in.form = "dictNoPrompts"
    THEN [raises |-> "ValueError", samples |-> <<>>]
    ELSE IF in.form = "dict"
    THEN [raises |-> "none",
          samples |-> [i \in DOMAIN in.items |->
                          DictItem(TRUE, in.items[i].prompt, in.kwargs)]]
    ELSE [raises |-> "TypeError", samples |-> <<>>]

\* Step 4: for original_index, sample in enumerate(samples), from sample
\* number idx (1-based here; original_index is idx - 1) on.
RECURSIVE GroupSamples(_, _, _, _)
GroupSamples(samples, base_kwargs, idx, groups) ==
    IF idx > Len(samples) THEN groups
    ELSE GroupSamples(samples, base_kwargs, idx + 1,
            GroupAppend(groups,
                        json_dumps(current_kwargs(base_kwargs, samples[idx].kwargs)),
                        [index |-> idx - 1, prompt |-> samples[idx].prompt]))

\* _prepare_and_group_inputs: the exception it raises, or the groups in the
\* order their signatures first occurred.
prepare_and_group_inputs(in, config_kwargs) ==
    LET norm == Normalize(in)
    IN  IF norm.raises # "none"
        THEN [raises |-> norm.raises, groups |-> <<>>]
        ELSE [raises |-> "none",
              groups |-> GroupSamples(norm.samples, copy(config_kwargs), 1, <<>>)]

\* The text generated for a prompt under a parameter dict: it tells which
\* prompt it answers and which parameters model.generate was given.
Generated(prompt, kwargs) == [kind |-> "text", of |-> prompt, with |-> Items(kwargs)]

\* _run_inference_batch(prompts, generation_kwargs): one text per prompt, in
\* the order of the prompts.
run_inference_batch(prompts, kwargs) ==
    [k \in DOMAIN prompts |-> Generated(prompts[k], kwargs)]

\* total_samples = sum(len(v) for v in grouped_prompts.values())
RECURSIVE total_samples(_)
total_samples(groups) ==
    IF groups = <<>> THEN 0 ELSE Len(Head(groups).group) + total_samples(Tail(groups))

\* Texts stored in the order the group holds them, from the first slot on.
PutInGroupOrder(res, group, texts) ==
    [k \in DOMAIN res |-> IF k <= Len(texts) THEN texts[k] ELSE res[k]]

\* for original_index, text in zip(indices, generated_texts):
\*     results[original_index] = text          (slot original_index + 1 here)
RECURSIVE PutBack(_, _, _)
PutBack(res, group, texts) ==
    IF group = <<>> \/ texts = <<>> THEN res
    ELSE PutBack([res EXCEPT ![Head(group).index + 1] = Head(texts)],
                 Tail(group), Tail(texts))

\* ------------------------------------------------ LocalModel.process: Init
LInit ==
    /\ generation_kwargs \in GenerationKwargsValues
    /\ inputs \in InputValues
    /\ lpc = "call"
    /\ grouped_prompts = <<>>
    /\ groupIdx = 0
    /\ outputs = <<>>
    /\ invocations = <<>>
    /\ lraised = "none"

\* No LocalModel.process call is running.
LIdle ==
    /\ generation_kwargs = <<>>
    /\ inputs = [form |-> "other", items |-> <<>>, kwargs |-> <<>>]
    /\ lpc = "none"
    /\ grouped_prompts = <<>>
    /\ groupIdx = 0
    /\ outputs = <<>>
    /\ invocations = <<>>
    /\ lraised = "none"

\* ----------------------------------------------------- LocalModel.process
\* grouped_prompts = self._prepare_and_group_inputs(inputs), then
\* results = [None] * total_samples.  An exception of the grouping leaves
\* process (nothing catches it).
PrepareAndGroup ==
    /\ lpc = "call"
    /\ LET r == prepare_and_group_inputs(inputs, generation_kwargs)
       IN  IF r.raises # "none"
           THEN /\ lpc' = "raised"
                /\ lraised' = r.raises
                /\ UNCHANGED <<grouped_prompts, outputs>>
           ELSE /\ lpc' = "groups"
                /\ grouped_prompts' = r.groups
                /\ outputs' = [k \in 1..total_samples(r.groups) |-> None]
                /\ UNCHANGED lraised
    /\ UNCHANGED <<generation_kwargs, inputs, groupIdx, invocations>>
    /\ UNCHANGED restOfLocalModel

\* One turn of `for kwargs_key, group in grouped_prompts.items()`: the
\* signature is parsed back, the group's prompts are run (ok: the inference
\* returns; otherwise model.generate raises and the exception leaves
\* process), and the texts are put back at their original indices.
RunGroup(ok) ==
    /\ lpc = "groups"
    /\ groupIdx < Len(grouped_prompts)
    /\ LET g == grouped_prompts[groupIdx + 1]
           kwargs == json_loads(g.key)
           prompts_in_group == [k \in DOMAIN g.group |-> g.group[k].prompt]
       IN  /\ invocations' = Append(invocations,
                                    [prompts |-> prompts_in_group, kwargs |-> kwargs])
           /\ IF ok
              THEN /\ outputs' = PutBack(outputs, g.group,
                                         run_inference_batch(prompts_in_group, kwargs))
                   /\ groupIdx' = groupIdx + 1
                   /\ UNCHANGED <<lpc, lraised>>
              ELSE /\ lpc' = "raised"
                   /\ lraised' = "RuntimeError"
                   /\ UNCHANGED <<outputs, groupIdx>>
    /\ UNCHANGED <<generation_kwargs, inputs, grouped_prompts>>
    /\ UNCHANGED restOfLocalModel

\* return results
LocalReturn ==
    /\ lpc = "groups"
    /\ groupIdx = Len(grouped_prompts)
    /\ lpc' = "returned"
    /\ UNCHANGED <<generation_kwargs, inputs, grouped_prompts, groupIdx, outputs,
                   invocations, lraised>>
    /\ UNCHANGED restOfLocalModel

LNext ==
    \/ PrepareAndGroup
    \/ \E ok \in BOOLEAN : RunGroup(ok)
    \/ LocalReturn

\* ============================================= SingleChoiceTask: values
\* The characters a response text is made of here: an upper-case and a
\* lower-case letter and a character that is neither letter, digit nor
\* underscore.  (No text holds one of the Chinese cue words of the first
\* patterns of extract_answer, so only the patterns for a letter standing
\* alone can match.)
Chars == {"A", "b", "?"}
Letters == {"A", "b"}
\* The response texts: '', 'A', 'b', '?', 'Ab', '?b', 'A?'.
Texts == {<<>>, <<"A">>, <<"b">>, <<"?">>, <<"A", "b">>, <<"?", "b">>, <<"A", "?">>}

\* What a model's process returns for one prompt: a str (LocalModel), a
\* chat-completion dict with or without 'choices', or {"error": message}
\* with a message that may be empty (str() of a bare TimeoutError is '').
StrResponse(text) == [type |-> "str", text |-> text]
CompletionResponse(text) == [type |-> "dict", error |-> "absent", hasChoices |-> TRUE, content |-> text]
NoChoicesResponse == [type |-> "dict", error |-> "absent", hasChoices |-> FALSE, content |-> <<>>]
ErrorResponse(message) == [type |-> "dict", error |-> message, hasChoices |-> FALSE, content |-> <<>>]
SuccessValues ==
    {StrResponse(t) : t \in Texts} \cup {CompletionResponse(t) : t \in Texts}
    \cup {NoChoicesResponse}
ProviderErrors == {ErrorResponse("Connection refused"), ErrorResponse("")}
ResponseValues == SuccessValues \cup ProviderErrors

\* The samples of a batch: each with its id and its correct answer, with or
\* without a 'question_text' and with or without an option 'A' in 'options'.
\* The texts of sample k are written k; 0 is the empty string.
Answers == {"A", "B"}
Batches ==
    UNION {{[k \in 1..n |-> [question_id |-> k, correct_answer |-> a[k],
                             has_question_text |-> q[k], has_option_A |-> o[k]]] :
              a \in [1..n -> Answers], q \in [1..n -> BOOLEAN], o \in [1..n -> BOOLEAN]} :
           n \in 0..MaxBatch}

\* placeholders = re.findall(...) on a template '... {question} ... {option_A}'.
Placeholders == {"question", "option_A"}

\* ------------------------------------- SingleChoiceTask: pure functions
\* \b([A-Za-z])\b at position i: a letter with no word character next to it.
StandsAlone(text, i) ==
    /\ text[i] \in Letters
    /\ i = 1 \/ text[i - 1] \notin Letters
    /\ i = Len(text) \/ text[i + 1] \notin Letters

\* str.upper() on one letter.
Upper == [A |-> "A", b |-> "B"]

\* extract_answer: the first pattern that matches gives the letter, in upper
\* case; no match gives 'UNKNOWN'.
extract_answer(text) ==
    IF \E i \in DOMAIN text : StandsAlone(text, i)
    THEN LET i == CHOOSE j \in DOMAIN text :
                     /\ StandsAlone(text, j)
                     /\ \A m \in DOMAIN text : StandsAlone(text, m) => j <= m
         IN  Upper[text[i]]
    ELSE "UNKNOWN"

\* get_model_response_content: a str as it is; of a dict without a truthy
\* 'error' the first choice's message content; '' in every other case.
get_model_response_content(response) ==
    IF response.type = "str" THEN response.text
    ELSE IF response.error \in {"absent", ""}
    THEN IF response.hasChoices THEN response.content ELSE <<>>
    ELSE <<>>

\* The value the loop body stores for one placeholder: neither placeholder
\* is a key of the sample, so 'option_A' is looked up in sample['options']
\* and 'question' falls to sample.get('question_text', ...); '' when absent.
placeholder_value(placeholder, sample) ==
    IF placeholder = "option_A"
    THEN (IF sample.has_option_A THEN sample.question_id ELSE 0)
    ELSE (IF sample.has_question_text THEN sample.question_id ELSE 0)

\* format_kwargs after the placeholder loop ran for one sample: the dict is
\* the one the previous samples wrote to.
format_kwargs_for(format_kwargs, sample) ==
    [p \in (DOMAIN format_kwargs) \cup Placeholders |->
        IF p \in Placeholders THEN placeholder_value(p, sample) ELSE format_kwargs[p]]

\* self.prompt_template.format(**format_kwargs)
format_prompt(format_kwargs) ==
    [question |-> format_kwargs["question"], option_A |-> format_kwargs["option_A"]]

\* `for sample in batch`: the prompts, format_kwargs carried from sample to
\* sample.
RECURSIVE build_prompts(_, _)
build_prompts(samples, format_kwargs) ==
    IF samples = <<>> THEN <<>>
    ELSE LET kw == format_kwargs_for(format_kwargs, Head(samples))
         IN  <<format_prompt(kw)>> \o build_prompts(Tail(samples), kw)

\* _response, the body of its loop: the output record for one response and
\* its sample.
result(response, sample) ==
    [question_id |-> sample.question_id,
     correct_answer |-> sample.correct_answer,
     predicted_answer |-> extract_answer(get_model_response_content(response)),
     raw_answer |-> get_model_response_content(response),
     is_correct |-> extract_answer(get_model_response_content(response))
                       = sample.correct_answer]

\* _response: for response, sample in zip(responses, batch).
response_results(resps, samples) ==
    [k \in 1..(IF Len(resps) < Len(samples) THEN Len(resps) ELSE Len(samples)) |->
        result(resps[k], samples[k])]

\* ------------------------------------------------ SingleChoiceTask: Init
TInit ==
    /\ batch \in Batches
    /\ tpc = "prompts"
    /\ all_prompts = <<>>
    /\ responses = <<>>
    /\ task_results = None
    /\ traised = "none"

\* No process_batch call is running.
TIdle ==
    /\ batch = <<>>
    /\ tpc = "none"
    /\ all_prompts = <<>>
    /\ responses = <<>>
    /\ task_results = None
    /\ traised = "none"

\* ------------------------------------------ SingleChoiceTask.process_batch
\* The loop that formats one prompt per sample, and the print of the last
\* prompt: with an empty batch the name `prompt` was never bound.
BuildPrompts ==
    /\ tpc = "prompts"
    /\ all_prompts' = build_prompts(batch, [p \in {} |-> 0])
    /\ IF batch = <<>>
       THEN tpc' = "raised" /\ traised' = "UnboundLocalError"
       ELSE tpc' = "model" /\ traised' = traised
    /\ UNCHANGED <<batch, responses, task_results>>
    /\ UNCHANGED restOfTask

\* responses = self.llm_model.process(all_prompts).  The models of this
\* repository answer with one response per prompt; BaseModel.process itself
\* fixes no length, so a model may answer with a shorter list.
ModelProcess ==
    /\ tpc = "model"
    /\ responses' \in UNION {[1..n -> ResponseValues] : n \in 0..Len(all_prompts)}
    /\ tpc' = "response"
    /\ UNCHANGED <<batch, all_prompts, task_results, traised>>
    /\ UNCHANGED restOfTask

\* self.llm_model.process raises (LocalModel: an inference failure); the
\* exception leaves process_batch.
ModelRaises ==
    /\ tpc = "model"
    /\ tpc' = "raised"
    /\ traised' = "RuntimeError"
    /\ UNCHANGED <<batch, all_prompts, responses, task_results>>
    /\ UNCHANGED restOfTask

\* results = self._response(responses, batch); return results
ResponseReturn ==
    /\ tpc = "response"
    /\ task_results' = List(response_results(responses, batch))
    /\ tpc' = "returned"
    /\ UNCHANGED <<batch, all_prompts, responses, traised>>
    /\ UNCHANGED restOfTask

TNext ==
    \/ BuildPrompts
    \/ ModelProcess
    \/ ModelRaises
    \/ ResponseReturn

\* ------------------------------------------------------ model construction
\* A dict held as a value of another dict.
DictValue(d) == [kind |-> "dict", items |-> d]

\* The classes whose constructor reads 'model_kwargs' and 'device_ids'.
LocalModelClasses == {"LocalModel", "ClassificationModel"}

\* What a model's config can hold under 'model_kwargs' (None: no entry) and
\* under 'device_ids' (None: no entry).
ModelKwargsValues ==
    {None}
    \cup {DictValue(d) :
            d \in {<<>>,
                   <<Item("torch_dtype", "auto")>>,
                   <<Item("device_map", "cuda:0")>>,
                   <<Item("attn_implementation", "eager")>>,
                   <<Item("device_map", "cuda:0"), Item("attn_implementation", "eager")>>}}
DeviceIdsValues == {None, List(<<0>>), List(<<0, 1>>)}
ModelConfigValues == [model_kwargs : ModelKwargsValues, device_ids : DeviceIdsValues]

\* torch.cuda.is_available() and
\* hasattr(torch.nn.functional, 'scaled_dot_product_attention').
TorchEnvs == [cuda : BOOLEAN, sdpa : BOOLEAN]

\* model_kwargs = self.config.get('model_kwargs', {}): the dict the config
\* holds when it holds one, a new empty dict otherwise.
get_model_kwargs(config) ==
    IF config.model_kwargs = None THEN <<>> ELSE config.model_kwargs.items

\* if "device_map" not in model_kwargs: model_kwargs["device_map"] = v
SetIfMissing(d, k, v) == IF k \in Keys(d) THEN d ELSE SetItem(d, k, v)

\* The device mapping both constructors write into model_kwargs: "auto" with
\* one or several device ids, 'cpu' without any.
with_device_map(d, device_ids) ==
    IF device_ids # None /\ Len(device_ids.recs) >= 1
    THEN SetIfMissing(d, "device_map", "auto")
    ELSE SetIfMissing(d, "device_map", "cpu")

\* LocalModel alone: the attention implementation written when CUDA is there.
with_attn_implementation(class, d, env) ==
    IF class = "LocalModel" /\ env.cuda /\ env.sdpa
    THEN SetIfMissing(d, "attn_implementation", "flash_attention_2")
    ELSE d

\* model_kwargs as the constructor hands it to from_pretrained.
constructor_model_kwargs(class, config, env) ==
    with_attn_implementation(
        class, with_device_map(get_model_kwargs(config), config.device_ids), env)

\* The config after a constructor ran: self.config is the dict that was passed
\* in, and the writes above went to the dict get() returned.
config_after_constructor(class, config, env) ==
    IF config.model_kwargs = None
    THEN config
    ELSE [config EXCEPT
            !.model_kwargs = DictValue(constructor_model_kwargs(class, config, env))]

MInit ==
    /\ model_class \in LocalModelClasses
    /\ model_config \in ModelConfigValues
    /\ loaded_config = model_config
    /\ torch_env \in TorchEnvs
    /\ constructions = 0
    /\ from_pretrained_kwargs = None
    /\ mpc = "ready"

\* No model is being constructed.
MIdle ==
    /\ model_class = "none"
    /\ model_config = None
    /\ loaded_config = None
    /\ torch_env = None
    /\ constructions = 0
    /\ from_pretrained_kwargs = None
    /\ mpc = "none"

\* _initialize_model for a stage that references the entry:
\* ModelClass(model_name=..., config=model_config['config']).  The constructor
\* raises ImportError before it reads the config, or writes model_kwargs and
\* calls from_pretrained, which loads the model or raises.
ConstructModel(outcome) ==
    /\ mpc = "ready"
    /\ constructions < MaxStages * MaxRefs
    /\ constructions' = constructions + 1
    /\ IF outcome = "ImportError"
       THEN /\ mpc' = "raised"
            /\ UNCHANGED <<model_config, from_pretrained_kwargs>>
       ELSE /\ model_config' = config_after_constructor(model_class, model_config, torch_env)
            /\ from_pretrained_kwargs' =
                   DictValue(constructor_model_kwargs(model_class, model_config, torch_env))
            /\ mpc' = IF outcome = "loaded" THEN "ready" ELSE "raised"
    /\ UNCHANGED <<model_class, loaded_config, torch_env>>
    /\ UNCHANGED restOfModelInit

MNext == \E outcome \in {"loaded", "OSError", "ImportError"} : ConstructModel(outcome)

\* -------------------------------------------- batch_size slicing of a list
\* What the model gives for one prompt or text: LocalModel decodes a text,
\* ClassificationModel builds a label record.
SliceOutput(class, prompt) ==
    [kind |-> IF class = "LocalModel" THEN "text" ELSE "label", of |-> prompt]

\* A slice that is only taken when it is full.
full_batch_only(list, from, size) ==
    IF from + size <= Len(list) THEN SubSeq(list, from + 1, from + size) ELSE <<>>

\* prompts[i:i + self.batch_size]
batch_prompts(list, from, size) ==
    SubSeq(list, from + 1, IF from + size <= Len(list) THEN from + size ELSE Len(list))

SInit ==
    /\ sclass \in LocalModelClasses
    /\ sprompts \in UNION {[1..n -> Prompts] : n \in 0..MaxPrompts}
    /\ batch_size \in 1..MaxBatchSize
    /\ loop_i = 0
    /\ in_progress = {}
    /\ slices_done = <<>>
    /\ all_generated_texts = <<>>
    /\ spc = "loop"

\* No list is being sliced.
SIdle ==
    /\ sclass = "none"
    /\ sprompts = <<>>
    /\ batch_size = 1
    /\ loop_i = 0
    /\ in_progress = {}
    /\ slices_done = <<>>
    /\ all_generated_texts = <<>>
    /\ spc = "none"

\* One turn of `for i in range(0, len(prompts), self.batch_size)` begins: the
\* slice is taken, tokenized and handed to the model.
SliceBegin ==
    /\ spc = "loop"
    /\ loop_i < Len(sprompts)
    /\ in_progress' = in_progress \cup
           {[from |-> loop_i, items |-> batch_prompts(sprompts, loop_i, batch_size)]}
    /\ spc' = "model"
    /\ UNCHANGED <<sclass, sprompts, batch_size, loop_i, slices_done,
                   all_generated_texts>>
    /\ UNCHANGED restOfSlices

\* The model call of the turn returns one output per element of the slice and
\* the outputs are appended (ok), or it raises and the exception leaves the
\* function.
SliceEnd(ok) ==
    /\ spc = "model"
    /\ \E s \in in_progress :
          /\ in_progress' = in_progress \ {s}
          /\ IF ok
             THEN /\ all_generated_texts' = all_generated_texts \o
                         [k \in DOMAIN s.items |-> SliceOutput(sclass, s.items[k])]
                  /\ slices_done' = Append(slices_done,
                                           [from |-> s.from, to |-> s.from + Len(s.items)])
                  /\ loop_i' = loop_i + batch_size
                  /\ spc' = "loop"
             ELSE /\ spc' = "raised"
                  /\ UNCHANGED <<all_generated_texts, slices_done, loop_i>>
    /\ UNCHANGED <<sclass, sprompts, batch_size>>
    /\ UNCHANGED restOfSlices

\* return all_generated_texts
SlicesReturn ==
    /\ spc = "loop"
    /\ loop_i >= Len(sprompts)
    /\ spc' = "returned"
    /\ UNCHANGED <<sclass, sprompts, batch_size, loop_i, in_progress, slices_done,
                   all_generated_texts>>
    /\ UNCHANGED restOfSlices

SNext ==
    \/ SliceBegin
    \/ \E ok \in BOOLEAN : SliceEnd(ok)
    \/ SlicesReturn

\* No pipeline is running.
PIdle ==
    /\ pipe = "none"
    /\ nStages = 0
    /\ ppc = "none"
    /\ cur = 0
    /\ conf = NoConf
    /\ keyIdx = 0
    /\ live = {}
    /\ taskLive = {}
    /\ all_data = Unbound
    /\ hist = <<>>
    /\ errStage = 0
    /\ reclaims = 0
    /\ retval = None

InitDispatch ==
    /\ DInit
    /\ PIdle
    /\ LIdle
    /\ TIdle
    /\ MIdle
    /\ SIdle

SpecDispatch == InitDispatch /\ [][DNext]_vars

\* A dispatch nobody cancels, on a loop that keeps running: every send that
\* is in flight finishes (the session's timeout bounds it) and every
\* coroutine, callback and awaiting caller that can go on is run.
DNextUncancelled ==
    \/ \E i \in Indices : Acquire(i)
    \/ \E i \in Indices : AcquireClosed(i)
    \/ \E i \in Indices, o \in SendOutcomes : Finish(i, o)
    \/ GatherReturn
    \/ GatherRaise
    \/ LoopShutdown
    \/ Submit
    \/ LoopEnd
    \/ \E i \in Indices, o \in SendOutcomes : TaskDone(i, o)
    \/ \E i \in Indices : DoneCallback(i)
    \/ UtilsGather

\* What every step of a dispatch changes a part of.
dprogress == <<dpc, tstate, semaphore, loopIdx, cbPending>>

SpecDispatchFair ==
    InitDispatch /\ [][DNextUncancelled]_vars /\ WF_dprogress(DNextUncancelled)

InitPipeline ==
    /\ PInit
    /\ DIdle
    /\ LIdle
    /\ TIdle
    /\ MIdle
    /\ SIdle

SpecPipeline == InitPipeline /\ [][PNext]_vars

InitLocalModel ==
    /\ LInit
    /\ DIdle
    /\ PIdle
    /\ TIdle
    /\ MIdle
    /\ SIdle

SpecLocalModel == InitLocalModel /\ [][LNext]_vars

InitTask ==
    /\ TInit
    /\ DIdle
    /\ PIdle
    /\ LIdle
    /\ MIdle
    /\ SIdle

SpecTask == InitTask /\ [][TNext]_vars

InitModelInit ==
    /\ MInit
    /\ DIdle
    /\ PIdle
    /\ LIdle
    /\ TIdle
    /\ SIdle

SpecModelInit == InitModelInit /\ [][MNext]_vars

InitSlices ==
    /\ SInit
    /\ DIdle
    /\ PIdle
    /\ LIdle
    /\ TIdle
    /\ MIdle

SpecSlices == InitSlices /\ [][SNext]_vars

\* ------------------------------------------------------ dispatcher claims
\* The outcome the send for payload i produced, as a result value.
OutcomeOf(i) ==
    IF sendOutcome[i] = "ok" THEN Ok(payloads[i].id) ELSE ErrorValue(sendOutcome[i])

\* C1: order preservation.  Whenever a dispatch has returned, its list has
\* exactly one entry per payload and entry i is the outcome of the send that
\* was issued for payload i, for every limit and every completion order.
C1_OrderPreserved ==
    dpc = "returned" =>
        /\ Len(results) = Len(payloads)
        /\ \A i \in Indices : results[i] = OutcomeOf(i)

\* C1 witness: a returned dispatch whose sends completed in the reverse of
\* the submission order, one of them with an error.
C1_Witness ==
    /\ dpc = "returned"
    /\ completed = <<2, 1>>
    /\ \E i \in Indices : sendOutcome[i] # "ok"

\* C2: failure isolation.  A failing send never makes the dispatch raise and
\* never gets another send cancelled (a dispatch its caller cancelled is a
\* different matter); in the returned list its slot holds an error value and
\* every other slot holds its own send's outcome.
C2_FailureIsolation ==
    /\ dpc # "raised"
    /\ dpc # "cancelled" => \A i \in Indices : tstate[i] # "cancelled"
    /\ dpc = "returned" =>
          \A i \in Indices :
              sendOutcome[i] # "ok" =>
                  /\ results[i].kind = "error"
                  /\ \A j \in Indices \ {i} : results[j] = OutcomeOf(j)

\* C3: concurrency bound.  At no time are more sends in flight than the
\* limit, so a send beyond the first `concurrency` starts only after an
\* earlier one has finished.
C3_ConcurrencyBound ==
    /\ Cardinality(InFlight) <= concurrency
    /\ Cardinality({i \in Indices : sendCount[i] > 0})
         - Cardinality({i \in Indices : sendOutcome[i] # "none"}) <= concurrency

\* C3 witness: more payloads than permits, every permit in use and a payload
\* still waiting for one.
C3_Witness ==
    /\ Len(payloads) > concurrency
    /\ Cardinality(InFlight) = concurrency
    /\ \E i \in Indices : sendCount[i] = 0

\* C4: result-table completeness.  Whenever a dispatch has returned, every
\* slot holds a success payload or an error value (none is None), and every
\* coroutine's result is in the table (none was dropped).
C4_TableComplete ==
    dpc = "returned" =>
        /\ Len(results) = Len(payloads)
        /\ \A i \in Indices : results[i].kind \in {"ok", "error"}
        /\ \A i \in Indices : \E k \in Indices : results[k] = tres[i].data

\* C4 witness: a returned dispatch holding a success and an error value.
C4_Witness ==
    /\ dpc = "returned"
    /\ \E i, j \in Indices : results[i].kind = "ok" /\ results[j].kind = "error"

\* -------------------------------------------------------- pipeline claims
\* C5: dataset hand-off.  The dataset a stage's process call receives is the
\* dataset the stage before it returned, and run() returns what the last
\* stage returned.
C5_DatasetHandOff ==
    /\ \A n \in Stages :
          (n + 1 \in Stages /\ hist[n + 1].proc # "none") =>
              hist[n + 1].procIn = hist[n].procOut
    /\ (ppc = "returned" /\ nStages > 0 /\ hist[nStages].proc = "returned") =>
          retval = hist[nStages].procOut

\* C6: release on every exit path.  A stage that instantiated handles and
\* whose process call or finalize raised has, by the time the exception has
\* left run(), released every handle it instantiated and dropped its task;
\* and a run that returned has released, stage by stage, exactly what it
\* instantiated.
C6_ReleaseOnEveryPath ==
    /\ \A n \in Stages :
          /\ hist[n].inits > 0
          /\ hist[n].proc = "raised" \/ hist[n].finalizeState = "raised"
          =>
              /\ hist[n].releases = hist[n].inits
              /\ \A h \in live : h.stage # n
              /\ n \notin taskLive
    /\ ppc = "returned" =>
          /\ \A n \in Stages : hist[n].releases = hist[n].inits
          /\ live = {}

\* Something of stage m has been acquired or run.
StageTouched(m) == hist[m].inits > 0 \/ hist[m].taskBuilt \/ hist[m].proc # "none"

C8_UnknownKindAcquiresNothing ==
    \A n \in Stages : hist[n].unknownKind =>
        /\ hist[n].inits = 0
        /\ \A h \in live : h.stage # n
        /\ ~hist[n].taskBuilt
        /\ hist[n].proc = "none"
        /\ ppc = "raised" /\ errStage = n

\* C8 witness: the second stage names an unknown task class, after a first
\* stage that instantiated a model.
C8_Witness ==
    /\ cur = 2
    /\ hist[2].unknownKind
    /\ hist[1].inits > 0
    /\ ppc = "raised"

\* C9: missing provider reference.  A stage with a '*_model_name' key whose
\* model is not in 'models' never has its task constructed nor its process
\* call made: it is still resolving its models, or the run has raised there.
C9_MissingRefFailsFast ==
    \A n \in Stages : hist[n].missingRef =>
        /\ ~hist[n].taskBuilt
        /\ n \notin taskLive
        /\ hist[n].proc = "none"
        /\ \/ cur = n /\ ppc = "models" /\ keyIdx < Len(conf.refs)
           \/ ppc = "raised" /\ errStage = n

\* C9 witness: a known task class whose only model reference is missing; the
\* run has raised.
C9_Witness ==
    /\ ppc = "raised"
    /\ cur > 0
    /\ hist[cur].missingRef
    /\ ~hist[cur].unknownKind
    /\ conf.refs = <<"missing">>

\* C10: fatal errors stop the run.  Once a stage failed to resolve or its
\* process call raised, run() has ended with that exception: no later stage
\* is begun and nothing is returned; and a run that returned had no failure.
C10_FatalErrorsStopTheRun ==
    /\ \A n \in Stages :
          \/ hist[n].unknownKind
          \/ hist[n].proc = "raised"
          \/ hist[n].missingRef /\ ~(cur = n /\ ppc = "models")
          => errStage = n
    /\ errStage # 0 =>
          /\ ppc = "raised"
          /\ cur = errStage
          /\ retval = None
          /\ \A m \in Stages : m > errStage =>
                ~hist[m].started /\ ~StageTouched(m)
    /\ ppc = "returned" =>
          \A n \in Stages :
              ~hist[n].unknownKind /\ ~hist[n].missingRef /\ hist[n].proc # "raised"

\* C10 witness: the first of two stages raised in its process call.
C10_Witness ==
    /\ nStages = 2
    /\ errStage = 1
    /\ hist[1].proc = "raised"

\* Stage n's process call returned and run() has gone past the point where
\* the finalize step stands in the stage's body.
PastFinalizeStep(n) ==
    /\ hist[n].proc = "returned"
    /\ \/ cur > n
       \/ cur = n /\ ppc \in {"cleanup", "loop", "returned"}

\* C11: finalize discipline.  For every stage whose task has a callable
\* finalize, in both pipelines: finalize is never called more than once,
\* is called only after the stage's process call returned, never when the
\* process call raised, and has been called once the run is past the stage's
\* process call.
C11_FinalizeDiscipline ==
    \A n \in Stages : hist[n].hasFinalize =>
        /\ hist[n].finalizeCalls <= 1
        /\ hist[n].finalizeCalls > 0 => hist[n].proc = "returned"
        /\ hist[n].proc = "raised" => hist[n].finalizeCalls = 0
        /\ PastFinalizeStep(n) => hist[n].finalizeCalls = 1

\* ------------------------------------------------------ LocalModel claims
\* The samples of the call in progress, once the grouping accepted the input.
Samples == Normalize(inputs).samples
\* _prepare_and_group_inputs has just returned its groups to process.
Grouped == lpc = "groups" /\ groupIdx = 0

\* The places (group, position) at which original index i occurs.
PlacesOf(groups, i) ==
    {<<g, k>> \in (DOMAIN groups) \X (1..MaxRecords + 1) :
        k \in DOMAIN groups[g].group /\ groups[g].group[k].index = i}

\* The groups as sets of original indices.
IndexSets(groups) ==
    {{groups[g].group[k].index : k \in DOMAIN groups[g].group} : g \in DOMAIN groups}

\* The input with every prompt text replaced by p.
WithPrompt(in, p) ==
    [in EXCEPT !.items = [i \in DOMAIN in.items |->
                             IF in.items[i].hasPrompt
                             THEN [in.items[i] EXCEPT !.prompt = p] ELSE in.items[i]]]

\* C12: grouping is a partition.  For every accepted input of N records the
\* groups hold each original index 0..N-1 exactly once, no other index and
\* no empty group, and the same input with other prompt texts is grouped
\* into the same index sets.
C12_GroupingIsPartition ==
    Grouped =>
        /\ \A i \in 0..(Len(Samples) - 1) :
              Cardinality(PlacesOf(grouped_prompts, i)) = 1
        /\ \A g \in DOMAIN grouped_prompts :
              /\ grouped_prompts[g].group # <<>>
              /\ \A k \in DOMAIN grouped_prompts[g].group :
                    grouped_prompts[g].group[k].index \in 0..(Len(Samples) - 1)
        /\ \A p \in Prompts :
              IndexSets(prepare_and_group_inputs(WithPrompt(inputs, p),
                                                 generation_kwargs).groups)
                 = IndexSets(grouped_prompts)

\* C12 witness: two records with different prompts and the same parameters,
\* grouped together.
C12_Witness ==
    /\ lpc = "groups"
    /\ Len(Samples) = 2
    /\ Samples[1].prompt # Samples[2].prompt
    /\ Len(grouped_prompts) = 1
    /\ Len(grouped_prompts[1].group) = 2

\* The effective parameters of sample i (1-based), as the set of its items.
EffectiveItems(i) == Items(current_kwargs(generation_kwargs, Samples[i].kwargs))

\* The group sample i (1-based) is in.
GroupOf(i) ==
    CHOOSE g \in DOMAIN grouped_prompts :
        \E k \in DOMAIN grouped_prompts[g].group :
            grouped_prompts[g].group[k].index = i - 1

MergedItems(defaults, overrides) ==
    Items(overrides) \cup {it \in Items(defaults) : it.k \notin Keys(overrides)}

\* C14: effective-parameter merge.  The text returned for record i was
\* generated from record i's prompt under the model-level defaults with the
\* record's overrides applied on top, and no step changes the defaults.
C14_EffectiveMerge ==
    /\ [](lpc = "returned" =>
            \A i \in DOMAIN Samples :
                /\ outputs[i].kind = "text"
                /\ outputs[i].of = Samples[i].prompt
                /\ outputs[i].with = MergedItems(generation_kwargs, Samples[i].kwargs))
    /\ [][generation_kwargs' = generation_kwargs]_vars

\* C14 witness: a returned call with defaults, one record overriding a
\* default with another value and one record adding a key of its own.
C14_Witness ==
    /\ lpc = "returned"
    /\ generation_kwargs = <<Item("temperature", IntValue(1))>>
    /\ \E i, j \in DOMAIN Samples :
          /\ Samples[i].kwargs = <<Item("temperature", FloatValue(1))>>
          /\ Keys(Samples[j].kwargs) = {"top_p"}

\* The input is a list of record dicts of which some, not all, lack 'prompt'.
SomeMalformed ==
    /\ inputs.form = "list"
    /\ \A i \in DOMAIN inputs.items : inputs.items[i].type = "dict"
    /\ \E i \in DOMAIN inputs.items : ~inputs.items[i].hasPrompt
    /\ \E i \in DOMAIN inputs.items : inputs.items[i].hasPrompt

\* C15: malformed-record isolation.  With a record that has no 'prompt' in a
\* list of record dicts, the grouping does not fail the call: the malformed
\* record is in no group and every well-formed record is in exactly one.
C15_MalformedIsolated ==
    SomeMalformed =>
        /\ lraised # "ValueError"
        /\ lpc # "call" =>
              \A i \in DOMAIN inputs.items :
                  Cardinality(PlacesOf(grouped_prompts, i - 1))
                     = IF inputs.items[i].hasPrompt THEN 1 ELSE 0

\* C16: provider invoke alignment (LocalModel.process).  A call with N
\* well-formed requests never raises because a request failed, and returns
\* N entries, entry i answering request i.
C16_InvokeAligned ==
    Normalize(inputs).raises = "none" =>
        /\ lpc # "raised"
        /\ lpc = "returned" =>
              /\ Len(outputs) = Len(Samples)
              /\ \A i \in DOMAIN Samples :
                    outputs[i].kind = "text" /\ outputs[i].of = Samples[i].prompt

\* The prompts of the samples whose effective parameters are the items e, in
\* input order.
RECURSIVE PromptsWith(_, _)
PromptsWith(e, i) ==
    IF i > Len(Samples) THEN <<>>
    ELSE (IF EffectiveItems(i) = e THEN <<Samples[i].prompt>> ELSE <<>>)
         \o PromptsWith(e, i + 1)

C17_NoImplicitRetries ==
    dfn \in {"post", "openai"} =>
        /\ \A i \in Indices : sendCount[i] <= 1
        /\ \A i \in Indices : sendOutcome[i] # "none" => sendCount[i] = 1
        /\ dpc = "returned" => \A i \in Indices : sendCount[i] = 1

\* C17 witness: a returned dispatch one of whose sends failed.
C17_Witness ==
    /\ dfn \in {"post", "openai"}
    /\ dpc = "returned"
    /\ Len(payloads) = 2
    /\ \E i \in Indices : sendOutcome[i] # "ok" /\ sendCount[i] = 1

\* C18: cancellation stops new work.  Once the cancellation of the dispatch
\* has been observed, no step puts the send of a payload in flight that was
\* not in flight before.
C18_CancellationStopsNewWork ==
    [][dpc = "cancelled" =>
          \A i \in Indices : tstate'[i] = "sending" => tstate[i] = "sending"]_vars

\* C19: a timeout is an ordinary per-item failure.  A send that ended by
\* timing out never makes its coroutine raise; in the returned list its
\* slot holds {"error": ...} for the timeout and every other slot holds its
\* own send's outcome.
C19_TimeoutIsOrdinaryFailure ==
    \A i \in Indices : sendOutcome[i] = "TimeoutError" =>
        /\ tstate[i] # "raised"
        /\ dpc = "returned" =>
              /\ results[i] = ErrorValue("TimeoutError")
              /\ \A j \in Indices \ {i} : results[j] = OutcomeOf(j)

\* C30: the dispatch terminates.  On a fair event loop on which every send
\* finishes, a dispatch over any payload list with any limit eventually
\* returns, and once it has, every send was started and has finished and all
\* permits of the semaphore are free again.
C30_DispatchTerminates ==
    <>(/\ dpc = "returned"
       /\ \A i \in Indices : sendCount[i] >= 1 /\ sendOutcome[i] # "none"
       /\ semaphore = concurrency)

\* ------------------------------------------------ SingleChoiceTask claims
\* C20: per-item failures remain visible downstream.  When process_batch
\* returns after the model answered every prompt, the output has one record
\* per input record, and the record of a sample whose response was a
\* provider error differs from the record every successful response would
\* have given for that sample.
C20_FailuresVisible ==
    tpc = "returned" /\ Len(responses) = Len(batch) =>
        /\ Len(task_results.recs) = Len(batch)
        /\ \A k \in DOMAIN batch : responses[k] \in ProviderErrors =>
              \A s \in SuccessValues : result(s, batch[k]) # task_results.recs[k]

\* The prompt a sample gives when no other sample came before it.
OwnPrompt(sample) == format_prompt(format_kwargs_for([p \in {} |-> 0], sample))

\* C27: stage output alignment.  For a batch of N records the model is sent
\* exactly N prompts, prompt i made of record i's fields alone, and
\* process_batch returns exactly N result records, result i built from
\* record i and response i, also when the model answered with fewer
\* responses than prompts.
C27_OutputAligned ==
    /\ tpc \in {"model", "response", "returned"} =>
          /\ Len(all_prompts) = Len(batch)
          /\ \A k \in DOMAIN batch : all_prompts[k] = OwnPrompt(batch[k])
    /\ tpc = "returned" =>
          /\ Len(task_results.recs) = Len(batch)
          /\ \A k \in DOMAIN batch : k \in DOMAIN responses =>
                task_results.recs[k] = result(responses[k], batch[k])

\* C28: an empty batch is a no-op.  process_batch called with an empty list
\* does not raise, and what it returns is the empty list.
C28_EmptyBatchNoOp ==
    batch = <<>> =>
        /\ tpc # "raised"
        /\ tpc = "returned" => task_results = List(<<>>)

\* C29: no partial acquisition on a missing reference.  A stage one of whose
\* model references names no entry of 'models' has no model instantiated for
\* it, whichever position the missing name has among the references.
C29_NoPartialAcquisition ==
    \A n \in Stages : hist[n].missingRef => hist[n].inits = 0

\* ------------------------------------------------ model construction claims
\* C21: the job configuration is read-only.  However often the models of the
\* job are constructed, with or without a 'model_kwargs' entry, the config of
\* a 'models' entry stays equal to the value the job file gave it.
C21_ConfigReadOnly == model_config = loaded_config

\* The records of the named loaders, one loader after the other.
RECURSIVE ConcatLoaders(_)
ConcatLoaders(names) ==
    IF names = <<>> THEN <<>> ELSE DataLoaders[Head(names)] \o ConcatLoaders(Tail(names))

\* C26: stage input from several loaders.  What _initialize_datas returns to
\* run() for a stage whose 'loader_names' names L1..Lk is the records of L1,
\* then those of L2, ..., then those of Lk, each record once.
C26_StageInputConcatenation ==
    [][ppc = "datasloop" /\ ppc' = "resolve" =>
          all_data' = List(ConcatLoaders(conf.loader_names))]_vars

\* C22: a fresh model handle for every stage.  Every '*_model_name'
\* reference of a stage gets an instance that did not exist before, and the
\* instances handed to the stage's task constructor are exactly those made
\* for this stage, one per reference; none was made for another stage, also
\* when another stage referenced the same model name.
C22_FreshHandlePerStage ==
    [][\A n \in Stages :
          /\ hist'[n].inits > hist[n].inits =>
                /\ Cardinality(live') = Cardinality(live) + 1
                /\ \A h \in live' \ live : h.stage = n
          /\ hist'[n].taskBuilt /\ ~hist[n].taskBuilt =>
                /\ Cardinality(conf.task_init_kwargs) = Len(conf.refs)
                /\ hist[n].inits = Len(conf.refs)
                /\ \A h \in conf.task_init_kwargs : h.stage = n /\ h \in live]_vars

\* The second stage's task was built with an instance of the model the first
\* stage's task was built with.
C22_Witness ==
    /\ cur = 2
    /\ 2 \in taskLive
    /\ \E h \in live : h.stage = 2 /\ h.name = "m1"
    /\ hist[1].taskBuilt
    /\ hist[1].inits > 0

\* C23: the cache reclaim runs between stages.  Whenever a model is
\* instantiated for stage n, the reclaim step has run once for each of the
\* n - 1 stages before it, and no model handle and no task of an earlier stage
\* is held any more.
C23_ReclaimBetweenStages ==
    [][\A n \in Stages : hist'[n].inits > hist[n].inits =>
          /\ reclaims = n - 1
          /\ \A h \in live : h.stage = n
          /\ taskLive = {}]_vars

\* A model of the second stage is live after the first stage held models.
C23_Witness ==
    /\ \E h \in live : h.stage = 2
    /\ hist[1].inits > 0
    /\ hist[1].releases = hist[1].inits
    /\ reclaims = 1

\* ------------------------------------------------------- slicing claims
\* The slices that hold position k (0-based) of the list.
SlicesHolding(k) ==
    {s \in DOMAIN slices_done : slices_done[s].from <= k /\ k < slices_done[s].to}

\* C25: sequential batch-size slicing.  The loop hands the model one slice
\* at a time, slice s being [(s-1)B, sB) cut at the end of the list; when it
\* returns, every position of the list was in exactly one slice and the
\* returned list has one entry per element, entry k being the output for
\* element k.
C25_SequentialSlicing ==
    /\ Cardinality(in_progress) <= 1
    /\ \A s \in DOMAIN slices_done :
          /\ slices_done[s].from = (s - 1) * batch_size
          /\ slices_done[s].to =
                 IF s * batch_size <= Len(sprompts) THEN s * batch_size ELSE Len(sprompts)
    /\ \A s \in in_progress : s.from = Len(slices_done) * batch_size
    /\ spc = "returned" =>
          /\ in_progress = {}
          /\ \A k \in 0..(Len(sprompts) - 1) : Cardinality(SlicesHolding(k)) = 1
          /\ Len(all_generated_texts) = Len(sprompts)
          /\ \A k \in DOMAIN sprompts :
                all_generated_texts[k] = SliceOutput(sclass, sprompts[k])

\* C25 witness: a list of three different elements went through the loop two
\* at a time, the last slice being a short one.
C25_Witness ==
    /\ spc = "returned"
    /\ Len(sprompts) = 3
    /\ batch_size = 2
    /\ sprompts[2] # sprompts[3]
    /\ Len(slices_done) = 2

====
